---- MODULE Spec2Model ----
(***************************************************************************)
(* A model of sszz (src/sszz/sszz.py): the diff-stat refactoring detectors *)
(* and the two commit searches built on them, against a git repository     *)
(* whose answers are the environment.                                      *)
(*                                                                         *)
(* Strings are sequences of tokens: a commit hash is one token, so the     *)
(* revision "c2^1" is <<"c2", "^1">> and the empty string is <<>>.         *)
(***************************************************************************)
EXTENDS Integers, Sequences, FiniteSets, TLC

\* The longest history after commit A that is explored.
MaxCommits == 4
\* Diff-stat components of the detector inputs range over 5 * (0..MaxStat).
MaxStat == 2

VARIABLES
  repo,   \* the git repository: what each git command answers
  lin,    \* one call of find_refactoring_commit(repo_dir, A)
  bin,    \* one call of find_refactoring_commit_binary(repo_dir, A, future_commits)
  det,    \* one call of check_refactoring_commit(repo_dir, A, B)
  alg     \* one use of Changes.__add__ on three values

vars == <<repo, lin, bin, det, alg>>

----------------------------------------------------------------------------
(* Values *)

\* Changes(insertions, deletions), the namedtuple.
Changes(i, d) == [insertions |-> i, deletions |-> d]

\* Changes.__add__ as a plausible slip would have it: deletions subtracted.
AddSubtractsDeletions(self, other) ==
  Changes(self.insertions + other.insertions, self.deletions - other.deletions)

\* Changes.__add__
Add(self, other) ==
  Changes(self.insertions + other.insertions, self.deletions + other.deletions)

\* Changes.__sub__
Sub(self, other) ==
  Changes(self.insertions - other.insertions, self.deletions - other.deletions)

\* Exceptions: a class name and its args.
NoExc == [type |-> "none", args |-> <<>>]
\* git.exc.GitCommandError(command, status, stderr, stdout)
GitCommandError(command, status, stderr) ==
  [type |-> "GitCommandError", args |-> <<command, status, stderr, <<>> >>]
\* git.exc.GitCommandNotFound: a backend failure that is no GitCommandError.
GitCommandNotFound == [type |-> "GitCommandNotFound", args |-> << <<"git">> >>]
\* class CommitNotFound(SSZZException), raised without arguments.
CommitNotFound == [type |-> "CommitNotFound", args |-> <<>>]
\* class CommitWithoutParent(SSZZException): defined, and raised nowhere.
CommitWithoutParent == [type |-> "CommitWithoutParent", args |-> <<>>]

\* The outcome of a call: a returned value or a raised exception.
Return(v) == [kind |-> "return", value |-> v, exc |-> NoExc]
Raise(e, dflt) == [kind |-> "raise", value |-> dflt, exc |-> e]

\* An optional commit: None, or a commit sha.
None == [some |-> FALSE, sha |-> <<>>]
Some(sha) == [some |-> TRUE, sha |-> sha]

----------------------------------------------------------------------------
(* The repository *)

HashTok == <<"c1", "c2", "c3", "c4", "c5", "c6", "c7", "c8">>
\* The i-th commit after A, oldest first.
Commit(i) == <<HashTok[i]>>
\* The commit under analysis.
CommitA == <<"a">>
\* f"{commit}^1"
FirstParent(commit) == commit \o <<"^1">>

LF == "LF"

\* What `git log --pretty=%H A..HEAD` prints for n commits after A: the
\* hashes newest first, one per line, the trailing newline stripped.
RECURSIVE LogOutput(_)
LogOutput(n) ==
  IF n = 0 THEN <<>>
  ELSE IF n = 1 THEN Commit(1)
  ELSE Commit(n) \o <<LF>> \o LogOutput(n - 1)

\* git's stderr texts.
MsgInvalidRange == <<"fatal:", "Invalid", "revision", "range", "a..HEAD">>
MsgAmbiguous == <<"fatal:", "ambiguous", "argument", "unknown", "revision">>
MsgNotARepo == <<"fatal:", "not", "a", "git", "repository">>
MsgInvalidObject == <<"fatal:", "Invalid", "object", "name", "revision", "range">>

\* What `git diff -w --shortstat` prints for a stat: fields of a number and
\* a word, a zero count left out, nothing at all for no change.
ShortStat(c) ==
  IF c.insertions = 0 /\ c.deletions = 0 THEN <<>>
  ELSE <<[n |-> 1, w |-> "file changed"]>>
       \o (IF c.insertions = 0 THEN <<>>
           ELSE <<[n |-> c.insertions,
                   w |-> IF c.insertions = 1 THEN "insertion(+)" ELSE "insertions(+)"]>>)
       \o (IF c.deletions = 0 THEN <<>>
           ELSE <<[n |-> c.deletions,
                   w |-> IF c.deletions = 1 THEN "deletion(-)" ELSE "deletions(-)"]>>)

----------------------------------------------------------------------------
(* git_compare_commits and the detectors *)

InsertionWords == {"insertion(+)", "insertions(+)"}
DeletionWords == {"deletion(-)", "deletions(-)"}

\* _get_numeric_var_from_regex_match: the number of the first field of the
\* text whose word the pattern matches, 0 when there is none.
GetNumericVarFromRegexMatch(pattern, string) ==
  LET hits == {i \in 1..Len(string) : string[i].w \in pattern}
  IN IF hits = {} THEN 0
     ELSE string[CHOOSE i \in hits : \A j \in hits : i <= j].n

\* git_compare_commits: git fails when a revision does not resolve, and the
\* GitCommandError is not caught here.
GitCompareCommits(commit_a, commit_b) ==
  IF commit_a \in repo.revs /\ commit_b \in repo.revs
    THEN LET result == repo.diff[<<commit_a, commit_b>>]
         IN Return(Changes(GetNumericVarFromRegexMatch(InsertionWords, result),
                           GetNumericVarFromRegexMatch(DeletionWords, result)))
    ELSE Raise(GitCommandError(<<"git", "diff">>, 128, MsgAmbiguous), Changes(0, 0))

\* The statements of a detector run in order and the first exception ends it:
\* the index of the first query that raises, 0 when none does.
FirstRaise(pairs) ==
  LET bad == {i \in 1..Len(pairs) : GitCompareCommits(pairs[i][1], pairs[i][2]).kind = "raise"}
  IN IF bad = {} THEN 0 ELSE CHOOSE i \in bad : \A j \in bad : i <= j

\* The diff queries a detector run issues, in order.
Issued(pairs) ==
  IF FirstRaise(pairs) = 0 THEN pairs ELSE SubSeq(pairs, 1, FirstRaise(pairs))

\* The result of a detector run over its queries: the first exception, or
\* the verdict.
Verdict(pairs, verdict) ==
  [queries |-> Issued(pairs),
   out |-> IF FirstRaise(pairs) = 0 THEN Return(verdict)
           ELSE Raise(GitCompareCommits(pairs[FirstRaise(pairs)][1],
                                        pairs[FirstRaise(pairs)][2]).exc, FALSE)]

\* check_refactoring_has_happened (the relaxed detector)
CheckRefactoringHasHappened(commit_a, commit_b) ==
  LET commit_ap == FirstParent(commit_a)
      changes_ap_to_a == GitCompareCommits(commit_ap, commit_a).value
      changes_ap_to_b == GitCompareCommits(commit_ap, commit_b).value
      changes_a_to_b == GitCompareCommits(commit_a, commit_b).value
      code_was_refactored_between_a_and_b ==
        Add(changes_ap_to_a, changes_a_to_b) # changes_ap_to_b
  IN Verdict(<< <<commit_ap, commit_a>>, <<commit_ap, commit_b>>, <<commit_a, commit_b>> >>,
             code_was_refactored_between_a_and_b)

\* The strict detector without its exclusion of B's parent.
StrictWithoutExclusion(commit_a, commit_b) ==
  LET commit_ap == FirstParent(commit_a)
      commit_bp == FirstParent(commit_b)
      changes_ap_to_a == GitCompareCommits(commit_ap, commit_a).value
      changes_ap_to_b == GitCompareCommits(commit_ap, commit_b).value
      changes_a_to_b == GitCompareCommits(commit_a, commit_b).value
  IN Verdict(<< <<commit_ap, commit_a>>, <<commit_ap, commit_bp>>, <<commit_ap, commit_b>>,
                <<commit_a, commit_bp>>, <<commit_a, commit_b>> >>,
             Add(changes_ap_to_a, changes_a_to_b) # changes_ap_to_b)

\* check_refactoring_commit (the strict detector)
CheckRefactoringCommit(commit_a, commit_b) ==
  LET commit_ap == FirstParent(commit_a)
      commit_bp == FirstParent(commit_b)
      changes_ap_to_a == GitCompareCommits(commit_ap, commit_a).value
      changes_ap_to_bp == GitCompareCommits(commit_ap, commit_bp).value
      changes_ap_to_b == GitCompareCommits(commit_ap, commit_b).value
      changes_a_to_bp == GitCompareCommits(commit_a, commit_bp).value
      changes_a_to_b == GitCompareCommits(commit_a, commit_b).value
      code_was_refactored_between_a_and_b ==
        Add(changes_ap_to_a, changes_a_to_b) # changes_ap_to_b
      code_was_refactored_between_a_and_bp ==
        Add(changes_ap_to_a, changes_a_to_bp) # changes_ap_to_bp
  IN Verdict(<< <<commit_ap, commit_a>>, <<commit_ap, commit_bp>>, <<commit_ap, commit_b>>,
                <<commit_a, commit_bp>>, <<commit_a, commit_b>> >>,
             code_was_refactored_between_a_and_b /\ ~code_was_refactored_between_a_and_bp)

----------------------------------------------------------------------------
(* get_all_commits_since *)

\* str.split('\n'): the pieces between the separators; the empty string
\* splits into one empty piece.
RECURSIVE Split(_)
Split(output) ==
  LET seps == {i \in 1..Len(output) : output[i] = LF}
  IN IF seps = {} THEN <<output>>
     ELSE LET i == CHOOSE k \in seps : \A j \in seps : k <= j
          IN <<SubSeq(output, 1, i - 1)>> \o Split(SubSeq(output, i + 1, Len(output)))

\* list[::-1]
Reversed(list) == [i \in 1..Len(list) |-> list[Len(list) + 1 - i]]

\* needle in haystack, for strings
Contains(haystack, needle) ==
  \E i \in 0..(Len(haystack) - Len(needle)) :
    SubSeq(haystack, i + 1, i + Len(needle)) = needle

\* The unpacking with the stdout taken for the stderr.
ErrorMessageFromStdout(git_error) == git_error.args[4]

\* _, _, error_message, *_ = git_error.args
ErrorMessage(git_error) == git_error.args[3]

\* get_all_commits_since: repo.log is what `git log A..HEAD` answers.
GetAllCommitsSince(commit_sha) ==
  IF repo.log.kind = "return"
    THEN Return(Reversed(Split(repo.log.value)))
  ELSE IF repo.log.exc.type = "GitCommandError"
    THEN IF Contains(ErrorMessage(repo.log.exc), <<"Invalid", "revision", "range">>)
           THEN Raise(CommitNotFound, <<>>)
           ELSE Raise(repo.log.exc, <<>>)
  ELSE Raise(repo.log.exc, <<>>)

----------------------------------------------------------------------------
(* find_refactoring_commit: the linear search *)

\* The calls start with nothing done.
LinIdle ==
  [pc |-> "idle", fetch |-> Return(<<>>), commits |-> <<>>, idx |-> 0,
   found |-> None, evals |-> <<>>, queries |-> <<>>, outcome |-> Return(None)]

\* The call up to its first evaluation: get_all_commits_since(repo_dir,
\* commit_sha) runs whole before the generator yields anything.
LinearStart(l) ==
  LET got == GetAllCommitsSince(CommitA)
  IN IF got.kind = "raise"
       THEN [l EXCEPT !.pc = "done", !.fetch = got, !.outcome = Raise(got.exc, None)]
     ELSE IF Len(got.value) = 0
       THEN [l EXCEPT !.pc = "done", !.fetch = got, !.outcome = Return(None)]
     ELSE [l EXCEPT !.pc = "scan", !.fetch = got, !.commits = got.value, !.idx = 1]

\* A list built of every match before its first element is taken: every
\* candidate is evaluated.
LinearStepEager(l) ==
  LET future_commit == l.commits[l.idx]
      check == CheckRefactoringHasHappened(CommitA, future_commit)
      l1 == [l EXCEPT !.evals = Append(@, future_commit),
                      !.queries = @ \o check.queries]
      hit == IF l.found.some \/ ~check.out.value THEN l.found ELSE Some(future_commit)
  IN IF check.out.kind = "raise"
       THEN [l1 EXCEPT !.pc = "done", !.outcome = Raise(check.out.exc, None)]
     ELSE IF l.idx = Len(l.commits)
       THEN [l1 EXCEPT !.pc = "done", !.found = hit, !.outcome = Return(hit)]
     ELSE [l1 EXCEPT !.found = hit, !.idx = @ + 1]

\* One step of next(generator, None): the next candidate is evaluated; a
\* true verdict returns it, the end of the list returns None.
LinearStep(l) ==
  LET future_commit == l.commits[l.idx]
      check == CheckRefactoringHasHappened(CommitA, future_commit)
      l1 == [l EXCEPT !.evals = Append(@, future_commit),
                      !.queries = @ \o check.queries]
  IN IF check.out.kind = "raise"
       THEN [l1 EXCEPT !.pc = "done", !.outcome = Raise(check.out.exc, None)]
     ELSE IF check.out.value
       THEN [l1 EXCEPT !.pc = "done", !.found = Some(future_commit),
                       !.outcome = Return(Some(future_commit))]
     ELSE IF l.idx = Len(l.commits)
       THEN [l1 EXCEPT !.pc = "done", !.outcome = Return(None)]
     ELSE [l1 EXCEPT !.idx = @ + 1]

----------------------------------------------------------------------------
(* find_refactoring_commit_binary: the binary search *)

\* future_commits=None, or a list given by the caller.
NoList == [given |-> FALSE, list |-> <<>>]
Given(list) == [given |-> TRUE, list |-> list]

BinIdle ==
  [pc |-> "idle", arg |-> NoList, orig |-> <<>>, fetches |-> 0, calls |-> 0,
   lens |-> <<>>, evals |-> <<>>, outcome |-> Return(None)]

\* The middle taken at the front: a scan.
MidIndexFirst(future_commits) == 0

\* int((len(future_commits)-1)/2), an index from 0
MidIndex(future_commits) == (Len(future_commits) - 1) \div 2

\* The true half without the middle.
TrueHalfDropsMid(future_commits, future_commit_index) ==
  SubSeq(future_commits, 1, future_commit_index)

\* future_commits[:future_commit_index+1]
TrueHalf(future_commits, future_commit_index) ==
  SubSeq(future_commits, 1, future_commit_index + 1)

\* The false half starting one too late.
FalseHalfSkipsOne(future_commits, future_commit_index) ==
  IF future_commit_index + 3 > Len(future_commits) THEN <<>>
  ELSE SubSeq(future_commits, future_commit_index + 3, Len(future_commits))

\* future_commits[future_commit_index+1:]
FalseHalf(future_commits, future_commit_index) ==
  SubSeq(future_commits, future_commit_index + 2, Len(future_commits))

\* One invocation of find_refactoring_commit_binary, up to its return or to
\* its recursive call (whose result it returns as it is).
BinaryCall(b) ==
  LET got == IF b.arg.given THEN Return(b.arg.list) ELSE GetAllCommitsSince(CommitA)
      future_commits == got.value
      b1 == [b EXCEPT !.calls = @ + 1,
                      !.fetches = IF b.arg.given THEN @ ELSE @ + 1,
                      !.orig = IF b.calls = 0 THEN future_commits ELSE @,
                      !.lens = IF got.kind = "raise" THEN @ ELSE Append(@, Len(future_commits))]
  IN IF got.kind = "raise"
       THEN [b1 EXCEPT !.pc = "done", !.outcome = Raise(got.exc, None)]
     ELSE IF Len(future_commits) = 0
       THEN [b1 EXCEPT !.pc = "done", !.outcome = Return(None)]
     ELSE
       LET future_commit_index == MidIndex(future_commits)
           future_commit == future_commits[future_commit_index + 1]
           check == CheckRefactoringHasHappened(CommitA, future_commit)
           b2 == [b1 EXCEPT !.evals = Append(@, [commit |-> future_commit,
                                                 verdict |-> check.out.value])]
       IN IF check.out.kind = "raise"
            THEN [b2 EXCEPT !.pc = "done", !.outcome = Raise(check.out.exc, None)]
          ELSE IF check.out.value
            THEN IF Len(future_commits) = 1
                   THEN [b2 EXCEPT !.pc = "done", !.outcome = Return(Some(future_commits[1]))]
                   ELSE [b2 EXCEPT !.arg = Given(TrueHalf(future_commits, future_commit_index))]
          ELSE [b2 EXCEPT !.arg = Given(FalseHalf(future_commits, future_commit_index))]

----------------------------------------------------------------------------
(* The repositories explored *)

\* The diff stats the histories of the searches are built of.
SearchStats == {Changes(0, 0), Changes(5, 5)}

\* Every stat with components in 5 * (0..MaxStat).
GridStats == {Changes(5 * i, 5 * d) : i \in 0..MaxStat, d \in 0..MaxStat}

\* The diff stats the detector is tried on: of the grid, the pure
\* insertions, the pure deletions and the balanced changes.
DetectorStats == {c \in GridStats : c.insertions = 0 \/ c.deletions = 0
                                     \/ c.insertions = c.deletions}

Commits(n) == {Commit(i) : i \in 1..n}
IndexOf(commit, n) == CHOOSE i \in 1..n : Commit(i) = commit

\* A linear history A' -- A -- c1 -- ... -- cn = HEAD. revs are the revisions
\* that resolve: the empty string is none of them (git diff fails on it).
NormalRepo(n, apa, apb, ab) ==
  [aKind |-> "normal", n |-> n,
   revs |-> {CommitA, FirstParent(CommitA)} \cup Commits(n),
   log |-> Return(LogOutput(n)),
   diff |-> [p \in {<<FirstParent(CommitA), CommitA>>}
                   \cup ({FirstParent(CommitA), CommitA} \X Commits(n)) |->
              ShortStat(IF p[2] = CommitA THEN apa
                        ELSE IF p[1] = CommitA THEN ab[IndexOf(p[2], n)]
                        ELSE apb[IndexOf(p[2], n)])]]

\* A history that starts at A: A^1 resolves to nothing.
RootRepo(n, ab) ==
  [aKind |-> "root", n |-> n,
   revs |-> {CommitA} \cup Commits(n),
   log |-> Return(LogOutput(n)),
   diff |-> [p \in {CommitA} \X Commits(n) |-> ShortStat(ab[IndexOf(p[2], n)])]]

\* A repository where `git log A..HEAD` fails: A names no commit (git
\* reports the range or the argument), or the backend fails otherwise.
FailingRepo(kind, exc) ==
  [aKind |-> kind, n |-> 0,
   revs |-> IF kind = "missing" THEN {} ELSE {CommitA, FirstParent(CommitA)},
   log |-> Raise(exc, <<>>),
   diff |-> [p \in IF kind = "missing" THEN {} ELSE {<<FirstParent(CommitA), CommitA>>} |->
              ShortStat(Changes(5, 5))]]

LogFailures ==
  { <<"missing", GitCommandError(<<"git", "log">>, 128, MsgInvalidRange)>>,
    <<"missing", GitCommandError(<<"git", "log">>, 128, MsgAmbiguous)>>,
    <<"normal", GitCommandError(<<"git", "log">>, 128, MsgNotARepo)>>,
    <<"normal", GitCommandError(<<"git", "log">>, 128, MsgInvalidObject)>>,
    <<"normal", GitCommandNotFound>> }

SearchRepos ==
  {NormalRepo(n, apa, apb, ab) :
     n \in 0..MaxCommits, apa \in SearchStats,
     apb \in [1..MaxCommits -> SearchStats], ab \in [1..MaxCommits -> SearchStats]}
  \cup {RootRepo(n, ab) : n \in 0..MaxCommits, ab \in [1..MaxCommits -> SearchStats]}
  \cup {FailingRepo(f[1], f[2]) : f \in LogFailures}

\* The history A' -- A -- c1 -- c2 of the strict detector: B is c2 and B' is
\* c2^1, and each of the five diffs is any stat.
DetB == Commit(2)
DetPairs ==
  { <<FirstParent(CommitA), CommitA>>, <<FirstParent(CommitA), FirstParent(DetB)>>,
    <<FirstParent(CommitA), DetB>>, <<CommitA, FirstParent(DetB)>>, <<CommitA, DetB>> }
DetectorRepos ==
  { [aKind |-> "normal", n |-> 2,
     revs |-> {CommitA, FirstParent(CommitA), Commit(1), DetB, FirstParent(DetB)},
     log |-> Return(LogOutput(2)),
     diff |-> [p \in DetPairs |-> ShortStat(st[p])]] : st \in [DetPairs -> DetectorStats] }
  \cup
  { [aKind |-> "root", n |-> 2,
     revs |-> {CommitA, Commit(1), DetB, FirstParent(DetB)},
     log |-> Return(LogOutput(2)),
     diff |-> [p \in {CommitA} \X {FirstParent(DetB), DetB} |-> ShortStat(st[p])]] :
       st \in [{CommitA} \X {FirstParent(DetB), DetB} -> DetectorStats] }

DetIdle == [pc |-> "idle", queries |-> <<>>, outcome |-> Return(FALSE)]
AlgIdle ==
  [pc |-> "idle", x |-> Changes(0, 0), y |-> Changes(0, 0), z |-> Changes(0, 0),
   xy |-> Changes(0, 0), yx |-> Changes(0, 0), xy_z |-> Changes(0, 0),
   x_yz |-> Changes(0, 0), x0 |-> Changes(0, 0), zero_x |-> Changes(0, 0)]

----------------------------------------------------------------------------
(* The searches over one repository *)

Init ==
  /\ repo \in SearchRepos
  /\ lin = LinIdle
  /\ bin = BinIdle
  /\ det = DetIdle
  /\ alg = AlgIdle

FindRefactoringCommit ==
  /\ lin.pc = "idle"
  /\ lin' = LinearStart(lin)
  /\ UNCHANGED <<repo, bin, det, alg>>

FindRefactoringCommitNext ==
  /\ lin.pc = "scan"
  /\ lin' = LinearStep(lin)
  /\ UNCHANGED <<repo, bin, det, alg>>

\* The caller passes no list, or the empty list.
FindRefactoringCommitBinary ==
  /\ bin.pc = "idle"
  /\ \E future_commits \in {NoList, Given(<<>>)} :
       bin' = [bin EXCEPT !.pc = "call", !.arg = future_commits]
  /\ UNCHANGED <<repo, lin, det, alg>>

FindRefactoringCommitBinaryCall ==
  /\ bin.pc = "call"
  /\ bin' = BinaryCall(bin)
  /\ UNCHANGED <<repo, lin, det, alg>>

Next ==
  \/ FindRefactoringCommit
  \/ FindRefactoringCommitNext
  \/ FindRefactoringCommitBinary
  \/ FindRefactoringCommitBinaryCall

Spec == Init /\ [][Next]_vars

----------------------------------------------------------------------------
(* The strict detector over one history *)

InitDetector ==
  /\ repo \in DetectorRepos
  /\ lin = LinIdle
  /\ bin = BinIdle
  /\ det = DetIdle
  /\ alg = AlgIdle

CheckRefactoringCommitCall ==
  /\ det.pc = "idle"
  /\ LET check == CheckRefactoringCommit(CommitA, DetB)
     IN det' = [pc |-> "done", queries |-> check.queries, outcome |-> check.out]
  /\ UNCHANGED <<repo, lin, bin, alg>>

NextDetector == CheckRefactoringCommitCall

SpecDetector == InitDetector /\ [][NextDetector]_vars

----------------------------------------------------------------------------
(* Changes arithmetic over three values *)

InitChanges ==
  /\ repo = FailingRepo("normal", GitCommandNotFound)
  /\ lin = LinIdle
  /\ bin = BinIdle
  /\ det = DetIdle
  /\ alg = AlgIdle

AddChanges ==
  /\ alg.pc = "idle"
  /\ \E x \in GridStats, y \in GridStats, z \in GridStats :
       alg' = [pc |-> "done", x |-> x, y |-> y, z |-> z,
               xy |-> Add(x, y), yx |-> Add(y, x),
               xy_z |-> Add(Add(x, y), z), x_yz |-> Add(x, Add(y, z)),
               x0 |-> Add(x, Changes(0, 0)), zero_x |-> Add(Changes(0, 0), x)]
  /\ UNCHANGED <<repo, lin, bin, det>>

NextChanges == AddChanges

SpecChanges == InitChanges /\ [][NextChanges]_vars

----------------------------------------------------------------------------
(* What the claims speak of *)

\* The relaxed predicate at a candidate: the detector returns true.
RelaxedHolds(commit) ==
  /\ CheckRefactoringHasHappened(CommitA, commit).out.kind = "return"
  /\ CheckRefactoringHasHappened(CommitA, commit).out.value

\* Once true at a candidate, true at every later one.
Monotone(candidates) ==
  \A i \in 1..Len(candidates) : \A j \in i..Len(candidates) :
    RelaxedHolds(candidates[i]) => RelaxedHolds(candidates[j])

\* The history after A as the repository has it, oldest first.
History == [i \in 1..repo.n |-> Commit(i)]

\* The positions of the history where the relaxed predicate holds.
Matches == {i \in 1..repo.n : RelaxedHolds(Commit(i))}

Least(S) == CHOOSE i \in S : \A j \in S : i <= j

RECURSIVE CeilLog2(_)
CeilLog2(n) == IF n <= 1 THEN 0 ELSE 1 + CeilLog2((n + 1) \div 2)

Range(s) == {s[i] : i \in 1..Len(s)}

\* The binary search was called without a list and has ended.
BinaryDoneOnHistory == bin.pc = "done" /\ bin.fetches = 1

\* C1: over the same candidate sequence, when the relaxed predicate is
\* monotone over it, the binary search ends as the linear search does: the
\* same commit, None in both, or the same exception.
BinaryAgreesWithLinear ==
  (lin.pc = "done" /\ BinaryDoneOnHistory /\ Monotone(bin.orig))
    => bin.outcome = lin.outcome

\* A monotone history of four candidates where both searches found the third.
BinaryAgreesWithLinearWitness ==
  /\ lin.pc = "done" /\ BinaryDoneOnHistory /\ Monotone(bin.orig)
  /\ Len(bin.orig) = 4
  /\ lin.outcome = Return(Some(Commit(3)))
  /\ bin.outcome = Return(Some(Commit(3)))

\* C2: when A has a parent and the history is listed, the linear search
\* returns the oldest commit after A at which the relaxed predicate holds,
\* and None exactly when it holds at none.
LinearReturnsOldestMatch ==
  (lin.pc = "done" /\ repo.aKind = "normal" /\ repo.log.kind = "return")
    => lin.outcome = Return(IF Matches = {} THEN None ELSE Some(Commit(Least(Matches))))

\* C3: when no commit follows A, both searches return None, and so does the
\* binary search called with the empty list.
EmptyHistoryReturnsNone ==
  /\ (lin.pc = "done" /\ repo.aKind = "normal" /\ repo.log.kind = "return" /\ repo.n = 0)
       => lin.outcome = Return(None)
  /\ (BinaryDoneOnHistory /\ repo.aKind = "normal" /\ repo.log.kind = "return" /\ repo.n = 0)
       => bin.outcome = Return(None)
  /\ (bin.pc = "done" /\ bin.fetches = 0) => bin.outcome = Return(None)

\* The five diff stats of the strict detector's history.
StatApA == GitCompareCommits(FirstParent(CommitA), CommitA).value
StatApBp == GitCompareCommits(FirstParent(CommitA), FirstParent(DetB)).value
StatApB == GitCompareCommits(FirstParent(CommitA), DetB).value
StatABp == GitCompareCommits(CommitA, FirstParent(DetB)).value
StatAB == GitCompareCommits(CommitA, DetB).value
Sum(x, y) == [insertions |-> x.insertions + y.insertions,
              deletions |-> x.deletions + y.deletions]

\* C4: the strict detector returns true exactly when (A'->A)+(A->B) differs
\* from (A'->B) and (A'->A)+(A->B') equals (A'->B'); it is false for
\* A'->A=(10,0), A->B=(0,10), A'->B=(10,10) and true for A'->B=(5,5) when
\* the sum holds at B'.
StrictIsRefactoredAtBOnly ==
  (det.pc = "done" /\ repo.aKind = "normal") =>
    /\ det.outcome.kind = "return"
    /\ det.outcome.value <=> (Sum(StatApA, StatAB) # StatApB /\ Sum(StatApA, StatABp) = StatApBp)
    /\ (StatApA = Changes(10, 0) /\ StatAB = Changes(0, 10) /\ StatApB = Changes(10, 10))
         => ~det.outcome.value
    /\ (StatApA = Changes(10, 0) /\ StatAB = Changes(0, 10) /\ StatApB = Changes(5, 5)
        /\ Sum(StatApA, StatABp) = StatApBp)
         => det.outcome.value

\* The detector said true for A'->A=(10,0), A->B=(0,10), A'->B=(5,5).
StrictIsRefactoredAtBOnlyWitness ==
  /\ det.pc = "done" /\ repo.aKind = "normal"
  /\ StatApA = Changes(10, 0) /\ StatAB = Changes(0, 10) /\ StatApB = Changes(5, 5)
  /\ StatABp = Changes(0, 0) /\ StatApBp = Changes(10, 0)
  /\ det.outcome = Return(TRUE)

\* C5: when A is a root commit, both searches end with the exception
\* CommitWithoutParent, and return nothing.
RootCommitRaisesCommitWithoutParent ==
  /\ (lin.pc = "done" /\ repo.aKind = "root") => lin.outcome = Raise(CommitWithoutParent, None)
  /\ (BinaryDoneOnHistory /\ repo.aKind = "root") => bin.outcome = Raise(CommitWithoutParent, None)

\* git said "Invalid revision range" for A..HEAD.
BackendReportsInvalidRange ==
  /\ repo.log.kind = "raise"
  /\ repo.log.exc.type = "GitCommandError"
  /\ repo.log.exc.args[3] = MsgInvalidRange

\* C6: get_all_commits_since raises CommitNotFound exactly when git reports
\* an invalid revision range; any other failure of git is raised as it is;
\* a failure returns no commits.
CommitNotFoundIffInvalidRange ==
  lin.pc # "idle" =>
    /\ (lin.fetch = Raise(CommitNotFound, <<>>)) <=> BackendReportsInvalidRange
    /\ (repo.log.kind = "raise" /\ ~BackendReportsInvalidRange)
         => lin.fetch = Raise(repo.log.exc, <<>>)
    /\ repo.log.kind = "raise" => (lin.fetch.kind = "raise" /\ lin.commits = <<>>)
    /\ repo.log.kind = "return" => lin.fetch.kind = "return"

\* The search ended with CommitNotFound on git's invalid range.
CommitNotFoundIffInvalidRangeWitness ==
  /\ lin.pc = "done" /\ BackendReportsInvalidRange
  /\ lin.fetch = Raise(CommitNotFound, <<>>)
  /\ lin.outcome = Raise(CommitNotFound, None)

\* C7: the sum of Changes is componentwise, commutative and associative,
\* and (0,0) is its identity on either side.
AddIsCommutativeMonoid ==
  alg.pc = "done" =>
    /\ alg.xy = Sum(alg.x, alg.y)
    /\ alg.xy = alg.yx
    /\ alg.xy_z = alg.x_yz
    /\ alg.xy_z = Sum(Sum(alg.x, alg.y), alg.z)
    /\ alg.x0 = alg.x
    /\ alg.zero_x = alg.x

\* Three different stats, none of them zero in both components, were added.
AddIsCommutativeMonoidWitness ==
  /\ alg.pc = "done"
  /\ alg.x = Changes(10, 0) /\ alg.y = Changes(0, 10) /\ alg.z = Changes(5, 5)
  /\ alg.xy_z = Changes(15, 15)

\* C8: the linear search evaluates the candidates oldest first, each once,
\* only after the predicate was false at every earlier one, and issues diff
\* queries for nothing beyond the last candidate it evaluated.
LinearIsLazy ==
  /\ Len(lin.evals) <= Len(lin.commits)
  /\ lin.evals = SubSeq(lin.commits, 1, Len(lin.evals))
  /\ (repo.n >= 1 /\ lin.pc # "idle" /\ repo.log.kind = "return") => lin.commits = History
  /\ \A i \in 1..(Len(lin.evals) - 1) : ~RelaxedHolds(lin.evals[i])
  /\ \A i \in 1..Len(lin.queries) :
       /\ lin.queries[i][1] \in {CommitA, FirstParent(CommitA)}
       /\ lin.queries[i][2] \in {CommitA} \cup Range(lin.evals)
  /\ (lin.pc = "done" /\ lin.outcome.kind = "return" /\ lin.outcome.value.some)
       => lin.evals[Len(lin.evals)] = lin.outcome.value.sha
  /\ (lin.pc = "scan") => lin.idx = Len(lin.evals) + 1

\* The search returned the second of four candidates after two evaluations.
LinearIsLazyWitness ==
  /\ lin.pc = "done" /\ repo.n = 4
  /\ lin.outcome = Return(Some(Commit(2)))
  /\ lin.evals = <<Commit(1), Commit(2)>>
  /\ Len(lin.queries) = 6
  /\ RelaxedHolds(Commit(4))

\* C9: over n >= 1 candidates the binary search evaluates the predicate at
\* most ceil(log2(n)) + 1 times, each call works on a shorter sequence than
\* the one before, and the history is fetched at most once.
BinaryIsLogarithmic ==
  /\ Len(bin.orig) >= 1 => Len(bin.evals) <= CeilLog2(Len(bin.orig)) + 1
  /\ \A i \in 1..(Len(bin.lens) - 1) : bin.lens[i + 1] < bin.lens[i]
  /\ Len(bin.evals) <= bin.calls /\ bin.calls <= Len(bin.orig) + 1
  /\ bin.fetches <= 1

\* A search over four candidates that ended after three evaluations.
BinaryIsLogarithmicWitness ==
  /\ BinaryDoneOnHistory /\ Len(bin.orig) = 4
  /\ Len(bin.evals) = 3
  /\ ~Monotone(bin.orig)

\* C10: a commit the binary search returns is one where the relaxed
\* predicate holds, and it is the first candidate or the predicate was
\* evaluated and false at the candidate before it.
BinaryReturnsBoundary ==
  (bin.pc = "done" /\ bin.outcome.kind = "return" /\ bin.outcome.value.some) =>
    /\ RelaxedHolds(bin.outcome.value.sha)
    /\ \E k \in 1..Len(bin.orig) :
         /\ bin.orig[k] = bin.outcome.value.sha
         /\ k = 1 \/ [commit |-> bin.orig[k - 1], verdict |-> FALSE] \in Range(bin.evals)

\* Over a history that is not monotone, the search returned the third
\* candidate, the second having been found false.
BinaryReturnsBoundaryWitness ==
  /\ bin.pc = "done" /\ bin.outcome = Return(Some(Commit(3)))
  /\ ~Monotone(bin.orig)
  /\ [commit |-> Commit(2), verdict |-> FALSE] \in Range(bin.evals)

====
